---- MODULE Spec2Model ----
(***************************************************************************)
(* A model of expense_tracker.py, a Streamlit script.  Streamlit runs the  *)
(* whole script once per widget interaction; each action below is one such *)
(* script run, triggered by one interaction (login button, form submit,    *)
(* month selectbox, delete button, save button).                           *)
(*                                                                         *)
(* Strings whose characters matter (login identifiers, month labels) are   *)
(* sequences of one-character strings.  Amounts are whole currency units.  *)
(***************************************************************************)
EXTENDS Integers, Sequences, FiniteSets, TLC

VARIABLES
    logged_in,        \* st.session_state.logged_in
    user_input,       \* the text typed in the login box at the last login
    user_id,          \* st.session_state.user_id
    expenses,         \* st.session_state.expenses, the session ledger
    disk,             \* user_data/expenses_<user_id>.csv, per user id
    df_expenses,      \* the local df_expenses the last dashboard was drawn from
    months,           \* the options of the month selectbox, in display order
    month_selected,   \* the selectbox's value
    df_filtered,      \* the rows of the selected month
    total_spent,      \* df_filtered["Amount"].sum()
    edited_df,        \* what st.data_editor returned for df_filtered
    budget_input,     \* the budget number_input's value
    remaining_budget, \* budget_input - total_spent
    pct_used,         \* total_spent / budget_input * 100, as a fraction
    status,           \* which of st.error / st.warning / st.success was shown
    top_cats,         \* the sorted per-category sums, as <<category, sum>> pairs
    top_shown,        \* the entries of top_cats the loop printed
    faults,           \* how many writes of the ledger file have failed so far
    last              \* the last script run: its trigger and how it ended

vars == <<logged_in, user_input, user_id, expenses, disk, df_expenses, months,
          month_selected, df_filtered, total_spent, edited_df, budget_input,
          remaining_budget, pct_used, status, top_cats, top_shown, faults, last>>

session == <<logged_in, user_input, user_id, expenses, disk, faults>>
budgetView == <<budget_input, remaining_budget, pct_used, status>>
topView == <<top_cats, top_shown>>

----------------------------------------------------------------------------
(* Bounds of the model *)

\* longest session ledger of the interactive specification
MaxLen == 2

\* longest ledger a session of SpecDelete, SpecEdit or SpecMonth starts from
MaxRows == 3

\* longest ledger a session of SpecTop starts from
MaxTopRows == 4

\* longest login identifier enumerated for the key derivation
MaxRaw == 4

\* total spent and budget are evaluated in steps of 50 up to 50 * MaxTotal
\* and 50 * MaxBudget
MaxTotal == 24

MaxBudget == 21

\* failed writes of the ledger file in one behaviour
MaxFaults == 1

----------------------------------------------------------------------------
(* Characters and strings *)

\* the characters used, in code point order
AsciiOrder ==
    <<" ","+",".","0","1","2","3","4","5","6","7","8","9","@","A","B","C","D",
      "E","F","G","H","I","J","K","L","M","N","O","P","Q","R","S","T","U","V",
      "W","X","Y","Z","_","a","b","c","d","e","f","g","h","i","j","k","l","m",
      "n","o","p","q","r","s","t","u","v","w","x","y","z">>

Ord(c) == CHOOSE i \in 1..Len(AsciiOrder) : AsciiOrder[i] = c

\* Python's str < str: lexicographic on code points, a proper prefix is smaller
StrLess(s, t) ==
    \E k \in 1..(Len(t)) :
        /\ \A j \in 1..(k - 1) : j <= Len(s) /\ s[j] = t[j]
        /\ \/ k = Len(s) + 1
           \/ k <= Len(s) /\ Ord(s[k]) < Ord(t[k])

RECURSIVE Replace(_, _, _)
\* str.replace(old, new) for a one-character old
Replace(s, old, new) ==
    IF s = << >> THEN << >>
    ELSE (IF Head(s) = old THEN new ELSE <<Head(s)>>) \o Replace(Tail(s), old, new)

get_user_id(email_or_phone) ==
    Replace(Replace(Replace(email_or_phone, "@", <<"_","a","t","_">>),
                    ".", <<"_","d","o","t","_">>),
            "+", <<"_","p","l","u","s","_">>)

----------------------------------------------------------------------------
(* Dates and month labels *)

MonthName ==
    << <<"J","a","n","u","a","r","y">>,
       <<"F","e","b","r","u","a","r","y">>,
       <<"M","a","r","c","h">>,
       <<"A","p","r","i","l">>,
       <<"M","a","y">>,
       <<"J","u","n","e">>,
       <<"J","u","l","y">>,
       <<"A","u","g","u","s","t">>,
       <<"S","e","p","t","e","m","b","e","r">>,
       <<"O","c","t","o","b","e","r">>,
       <<"N","o","v","e","m","b","e","r">>,
       <<"D","e","c","e","m","b","e","r">> >>

DigitChar == <<"0","1","2","3","4","5","6","7","8","9">>

\* "%Y": the year in four digits
FourDigits(y) ==
    << DigitChar[((y \div 1000) % 10) + 1], DigitChar[((y \div 100) % 10) + 1],
       DigitChar[((y \div 10) % 10) + 1], DigitChar[(y % 10) + 1] >>

\* a calendar date
Day(y, m, d) == [y |-> y, m |-> m, d |-> d]

\* strftime with the format "%B": the label without its year
strftime_month_only(date) == MonthName[date.m]

\* dt.strftime("%B %Y")
strftime(date) == MonthName[date.m] \o <<" ">> \o FourDigits(date.y)

SameMonth(a, b) == a.y = b.y /\ a.m = b.m

\* month a is later in calendar time than month b
MonthAfter(a, b) == a.y > b.y \/ (a.y = b.y /\ a.m > b.m)

----------------------------------------------------------------------------
(* Records, the ledger and the CSV file *)

\* the selectbox of the add form
Categories == {"Food", "Travel", "Shopping", "Bills", "Entertainment", "Other"}

\* a missing value of a data frame cell
NaN == "NaN"

Row(date, category, amount, note) ==
    [Date |-> date, Category |-> category, Amount |-> amount, Note |-> note]

\* df.to_csv(index=False): the date in ISO form, a missing note as the empty field
to_csv(df) ==
    [i \in 1..Len(df) |->
        [Date |-> <<df[i].Date.y, df[i].Date.m, df[i].Date.d>>,
         Category |-> df[i].Category,
         Amount |-> df[i].Amount,
         Note |-> IF df[i].Note = NaN THEN "" ELSE df[i].Note]]

\* pd.read_csv(parse_dates=["Date"]): an empty field is read as a missing value
read_csv(rows) ==
    [i \in 1..Len(rows) |->
        [Date |-> Day(rows[i].Date[1], rows[i].Date[2], rows[i].Date[3]),
         Category |-> rows[i].Category,
         Amount |-> rows[i].Amount,
         Note |-> IF rows[i].Note = "" THEN NaN ELSE rows[i].Note]]

\* The files user_data/expenses_<user_id>.csv are a function from the user ids
\* that have a file to the file's rows.
load_expense_data(d, uid) ==
    IF uid \in DOMAIN d THEN read_csv(d[uid]) ELSE << >>

\* a save that writes nothing
save_expense_data_skipped(d, uid, df) == d

\* the files after save_expense_data(uid, df) has returned
save_expense_data(d, uid, df) ==
    [x \in DOMAIN d \cup {uid} |-> IF x = uid THEN to_csv(df) ELSE d[x]]

----------------------------------------------------------------------------
(* The month section of the dashboard *)

RECURSIVE SortedReverse(_)
\* sorted(labels, reverse=True) on distinct strings
SortedReverse(S) ==
    IF S = {} THEN << >>
    ELSE LET top == CHOOSE x \in S : \A y \in S \ {x} : StrLess(y, x)
         IN  <<top>> \o SortedReverse(S \ {top})

\* the dates that occur in the model
AllDates ==
    {Day(2024, 1, 10), Day(2024, 12, 5), Day(2025, 1, 10), Day(2025, 1, 20),
     Day(2025, 4, 2)}

\* strftime and sorted, tabulated once over the dates of the model
LabelOf == [date \in AllDates |-> strftime(date)]

SortedLabels ==
    [S \in SUBSET {LabelOf[date] : date \in AllDates} |-> SortedReverse(S)]

\* sorted(df["Date"].dt.strftime("%B %Y").unique(), reverse=True)
MonthOptions(df) == SortedLabels[{LabelOf[df[i].Date] : i \in 1..Len(df)}]

\* df_expenses[df_expenses["Date"].dt.strftime("%B %Y") == month_selected]
FilterByMonth(df, label) ==
    LET InMonth(r) == LabelOf[r.Date] = label
    IN  SelectSeq(df, InMonth)

RECURSIVE SumAmount(_)
\* df["Amount"].sum()
SumAmount(df) ==
    IF df = << >> THEN 0 ELSE Head(df).Amount + SumAmount(Tail(df))

\* df_filtered["Amount"].sum()
TotalSpent(df, filtered) == SumAmount(filtered)

NoMonth == << >>

\* no selectbox interaction in this run
NoChoice == << >>

Range(seq) == {seq[i] : i \in 1..Len(seq)}

\* The selectbox's value in a run: the user's choice if this run is the choice;
\* otherwise the widget keeps its value while its options are the same, and
\* starts at its first option when they are not.
SelectboxValue(options, prevOptions, prevValue, choice) ==
    IF choice # NoChoice THEN choice
    ELSE IF options = prevOptions /\ prevValue \in Range(options) THEN prevValue
    ELSE options[1]

\* lines 87-105 on the ledger df: what the month section shows
MonthSection(df, prevOptions, prevValue, choice) ==
    IF df = << >>
    THEN [months |-> << >>, month_selected |-> NoMonth,
          df_filtered |-> << >>, total_spent |-> 0]
    ELSE LET options == MonthOptions(df)
             sel == SelectboxValue(options, prevOptions, prevValue, choice)
             filtered == FilterByMonth(df, sel)
         IN  [months |-> options, month_selected |-> sel,
              df_filtered |-> filtered, total_spent |-> TotalSpent(df, filtered)]

\* the month section of this run, drawn from df
Render(df, prevOptions, prevValue, choice) ==
    LET v == MonthSection(df, prevOptions, prevValue, choice)
    IN  /\ df_expenses' = df
        /\ months' = v.months
        /\ month_selected' = v.month_selected
        /\ df_filtered' = v.df_filtered
        /\ total_spent' = v.total_spent

\* line 122 when no cell of the table was edited in this run
TableUnedited == edited_df' = df_filtered'

\* the run stopped with an exception before line 87: nothing is drawn
RenderNothing(df) ==
    /\ df_expenses' = df
    /\ months' = << >>
    /\ month_selected' = NoMonth
    /\ df_filtered' = << >>
    /\ total_spent' = 0
    /\ edited_df' = << >>

----------------------------------------------------------------------------
(* The budget section of the dashboard *)

\* budgets.get(month_selected, 1000.0)
DefaultBudget == 1000

\* elif pct_used > 90
NearLimitPct == 90

RemainingBudget(total, budget) == budget - total

\* (total_spent / budget_input * 100) if budget_input > 0 else 0, as the
\* fraction num / den
PctUsed(total, budget) ==
    IF budget > 0 THEN [num |-> total * 100, den |-> budget]
    ELSE [num |-> 0, den |-> 1]

\* the branches with the near-limit test written pct_used >= 90
BudgetStatus_at_least(remaining, pct) ==
    IF remaining < 0 THEN "OVER"
    ELSE IF pct.num >= NearLimitPct * pct.den THEN "NEAR_LIMIT"
    ELSE "WITHIN"

\* the branch of lines 112-117 taken: st.error is OVER, st.warning is
\* NEAR_LIMIT, st.success is WITHIN
BudgetStatus(remaining, pct) ==
    IF remaining < 0 THEN "OVER"
    ELSE IF pct.num > NearLimitPct * pct.den THEN "NEAR_LIMIT"
    ELSE "WITHIN"

\* lines 105-117 for this budget
RenderBudget(total, budget) ==
    /\ budget_input' = budget
    /\ remaining_budget' = RemainingBudget(total, budget)
    /\ pct_used' = PctUsed(total, budget)
    /\ status' = BudgetStatus(RemainingBudget(total, budget), PctUsed(total, budget))

----------------------------------------------------------------------------
(* The summary section of the dashboard *)

\* if i >= 3: break
TopCount == 3

\* df_filtered.groupby("Category")["Amount"].sum(): one <<category, sum>> per
\* category present
GroupSums(df) ==
    LET OfCat(c) == LET Is(r) == r.Category = c IN SelectSeq(df, Is)
    IN  {<<c, SumAmount(OfCat(c))>> : c \in {df[i].Category : i \in 1..Len(df)}}

RECURSIVE SortValuesDescending(_)
\* .sort_values(ascending=False): every order with non-increasing sums; the
\* default sort is not stable, so the order of equal sums is not determined
SortValuesDescending(S) ==
    IF S = {} THEN {<< >>}
    ELSE UNION {{<<x>> \o t : t \in SortValuesDescending(S \ {x})} :
                x \in {x \in S : \A y \in S : y[2] <= x[2]}}

\* the loop with its test written i > 3: one entry more is printed
Printed_one_more(series) ==
    SubSeq(series, 1, IF Len(series) < TopCount + 1 THEN Len(series) ELSE TopCount + 1)

\* the entries the loop of lines 149-152 prints
Printed(series) ==
    SubSeq(series, 1, IF Len(series) < TopCount THEN Len(series) ELSE TopCount)

----------------------------------------------------------------------------
(* What the user enters *)

\* identifiers typed in the login box
RawLogins == { <<"a","@","b",".","c","o","m">> }

\* st.sidebar.text_input(..., max_chars=50)
MaxChars == 50

FormDates == {Day(2025, 1, 10), Day(2025, 4, 2)}

FormCategories == {"Food"}

\* number_input(min_value=0.0)
FormAmounts == {10}

\* text_input: the empty string when nothing is typed
FormNotes == {""}

\* what can be typed into a cell of st.data_editor: the Category column is a
\* text column and the Amount column a number column, neither is restricted
EditorDates == FormDates

EditorCategories == FormCategories \cup {"Misc"}

EditorAmounts == FormAmounts \cup {-5}

\* the month labels of the dates that can be entered
Labels == {LabelOf[d] : d \in EditorDates}

\* the rows that differ from row r in at most one cell
OneCellEdits(r) ==
    {r}
    \cup {[r EXCEPT !.Date = v] : v \in EditorDates}
    \cup {[r EXCEPT !.Category = v] : v \in EditorCategories}
    \cup {[r EXCEPT !.Amount = v] : v \in EditorAmounts}

\* What st.data_editor returns for df_filtered in this model: the frame with
\* at most one cell changed, the frame with its last row removed, or the frame
\* with a copy of its first row added (num_rows="dynamic" allows both).
EditedFrames(dff) ==
    IF dff = << >> THEN {} ELSE
    UNION {{[dff EXCEPT ![i] = q] : q \in OneCellEdits(dff[i])} : i \in 1..Len(dff)}
    \cup {SubSeq(dff, 1, Len(dff) - 1)}
    \cup {Append(dff, dff[1])}

\* the rows of seq at the positions in idx, in order
Rows(seq, idx) ==
    LET F[i \in 0..Len(seq)] ==
            IF i = 0 THEN << >>
            ELSE IF i \in idx THEN Append(F[i - 1], seq[i]) ELSE F[i - 1]
    IN  F[Len(seq)]

\* a run ends "ok" (Streamlit shows the run's st.success message) or with the
\* exception that stopped it
Run(op, result) == [op |-> op, result |-> result]

----------------------------------------------------------------------------
(* The ledger operations *)

\* lines 127-134: the rows of the ledger kept by the delete
DeleteSelected(ledger, delete_rows) ==
    LET isin(v, col) == \E i \in 1..Len(delete_rows) : delete_rows[i][col] = v
        Keep(r) == ~ ( /\ isin(r.Date, "Date")
                       /\ isin(r.Category, "Category")
                       /\ isin(r.Amount, "Amount")
                       /\ isin(r.Note, "Note") )
    IN  SelectSeq(ledger, Keep)

\* line 141: the positions of the ledger's rows of the selected month
Mask(ledger, label) == {i \in 1..Len(ledger) : LabelOf[ledger[i].Date] = label}

\* the assignment written to the first rows of the ledger instead of the
\* rows of the mask
LocAssign_first_rows(ledger, mask, values) ==
    [i \in 1..Len(ledger) |-> IF i <= Len(values) THEN values[i] ELSE ledger[i]]

\* line 142: ledger.loc[mask, columns] = values, for as many values as the
\* mask has rows: the k-th row of the mask takes the k-th row of values
LocAssign(ledger, mask, values) ==
    [i \in 1..Len(ledger) |->
        IF i \in mask
        THEN values[Cardinality({j \in mask : j <= i})]
        ELSE ledger[i]]

----------------------------------------------------------------------------
(* The script runs *)

NotDrawn == [num |-> 0, den |-> 1]

Init ==
    /\ logged_in = FALSE
    /\ user_input = << >>
    /\ user_id = << >>
    /\ expenses = << >>
    /\ disk = << >>
    /\ df_expenses = << >>
    /\ months = << >>
    /\ month_selected = NoMonth
    /\ df_filtered = << >>
    /\ total_spent = 0
    /\ edited_df = << >>
    /\ budget_input = DefaultBudget
    /\ remaining_budget = 0
    /\ pct_used = NotDrawn
    /\ status = "none"
    /\ top_cats = << >>
    /\ top_shown = << >>
    /\ faults = 0
    /\ last = Run("Start", "ok")

\* lines 50-55, then the dashboard of the ledger loaded
Login(raw) ==
    /\ raw # << >>
    /\ Len(raw) <= MaxChars
    /\ logged_in' = TRUE
    /\ user_input' = raw
    /\ user_id' = get_user_id(raw)
    /\ expenses' = load_expense_data(disk, get_user_id(raw))
    /\ Render(expenses', months, month_selected, NoChoice)
    /\ TableUnedited
    /\ last' = Run("Login", "ok")
    /\ UNCHANGED <<disk, faults, budgetView, topView>>

\* lines 78-84, then the dashboard; fault: the write of the file fails and
\* save_expense_data raises at line 83, which ends the run
Add(date, category, amount, note, fault) ==
    /\ logged_in
    /\ Len(expenses) < MaxLen
    /\ fault => faults < MaxFaults
    /\ LET new_entry == Row(date, category, amount, note)
           df == Append(expenses, new_entry)
       IN  /\ expenses' = df
           /\ IF fault
              THEN /\ disk' = disk
                   /\ faults' = faults + 1
                   /\ RenderNothing(df)
                   /\ last' = Run("Add", "OSError")
              ELSE /\ disk' = save_expense_data(disk, user_id, df)
                   /\ faults' = faults
                   /\ Render(df, months, month_selected, NoChoice)
                   /\ TableUnedited
                   /\ last' = Run("Add", "ok")
    /\ UNCHANGED <<logged_in, user_input, user_id, budgetView, topView>>

\* a run started by choosing a month in the selectbox
SelectMonth(label) ==
    /\ logged_in
    /\ label \in Range(MonthOptions(expenses))
    /\ Render(expenses, months, month_selected, label)
    /\ TableUnedited
    /\ last' = Run("SelectMonth", "ok")
    /\ UNCHANGED <<session, budgetView, topView>>

\* lines 124-137: the rows at the positions sel of the table are ticked and the
\* delete button is pressed; st.rerun() then draws the dashboard again
DeleteWith(sel, fault) ==
    /\ logged_in
    /\ expenses # << >>
    /\ fault => faults < MaxFaults
    /\ LET v == MonthSection(expenses, months, month_selected, NoChoice)
           delete_rows == Rows(v.df_filtered, sel)
           kept == DeleteSelected(expenses, delete_rows)
       IN  /\ sel \subseteq 1..Len(v.df_filtered)
           /\ delete_rows # << >>
           /\ expenses' = kept
           /\ IF fault
              THEN /\ disk' = disk
                   /\ faults' = faults + 1
                   /\ Render(expenses, months, month_selected, NoChoice)
                   /\ TableUnedited
                   /\ last' = Run("Delete", "OSError")
              ELSE /\ disk' = save_expense_data(disk, user_id, kept)
                   /\ faults' = faults
                   /\ Render(kept, v.months, v.month_selected, NoChoice)
                   /\ TableUnedited
                   /\ last' = Run("Delete", "ok")
    /\ UNCHANGED <<logged_in, user_input, user_id, budgetView, topView>>

Delete ==
    \E sel \in SUBSET (1..Len(FilterByMonth(expenses,
           MonthSection(expenses, months, month_selected, NoChoice).month_selected))),
       fault \in BOOLEAN :
         DeleteWith(sel, fault)

\* lines 139-144: the table was edited to the frame edited (one of
\* EditedFrames(df_filtered), see SaveChanges) and the save button is pressed;
\* the dashboard of this run was drawn before the ledger changed
SaveChangesWith(edited, fault) ==
    /\ logged_in
    /\ expenses # << >>
    /\ fault => faults < MaxFaults
    /\ LET v == MonthSection(expenses, months, month_selected, NoChoice)
           mask == Mask(expenses, v.month_selected)
       IN  /\ Render(expenses, months, month_selected, NoChoice)
           /\ edited_df' = edited
           /\ IF Len(edited) # Cardinality(mask)
              THEN \* the assignment of line 142 raises: shape mismatch
                   /\ ~fault
                   /\ UNCHANGED <<expenses, disk, faults>>
                   /\ last' = Run("SaveChanges", "ValueError")
              ELSE /\ expenses' = LocAssign(expenses, mask, edited)
                   /\ IF fault
                      THEN /\ disk' = disk
                           /\ faults' = faults + 1
                           /\ last' = Run("SaveChanges", "OSError")
                      ELSE /\ disk' = save_expense_data(disk, user_id, expenses')
                           /\ faults' = faults
                           /\ last' = Run("SaveChanges", "ok")
    /\ UNCHANGED <<logged_in, user_input, user_id, budgetView, topView>>

SaveChanges ==
    \E edited \in EditedFrames(FilterByMonth(expenses,
           MonthSection(expenses, months, month_selected, NoChoice).month_selected)),
       fault \in BOOLEAN :
         SaveChangesWith(edited, fault)

\* a run started by setting the budget number_input (min_value=0.0) to budget:
\* lines 87-117
Budget(budget) ==
    /\ logged_in
    /\ expenses # << >>
    /\ budget >= 0
    /\ Render(expenses, months, month_selected, NoChoice)
    /\ TableUnedited
    /\ RenderBudget(total_spent', budget)
    /\ last' = Run("Budget", "ok")
    /\ UNCHANGED <<session, topView>>

\* a run with no button pressed and no widget changed, down to the summary of
\* lines 147-152
Rerun ==
    /\ logged_in
    /\ expenses # << >>
    /\ Render(expenses, months, month_selected, NoChoice)
    /\ TableUnedited
    /\ \E series \in SortValuesDescending(GroupSums(df_filtered')) :
         /\ top_cats' = series
         /\ top_shown' = Printed(series)
    /\ last' = Run("Rerun", "ok")
    /\ UNCHANGED <<session, budgetView>>

Next ==
    \/ \E raw \in RawLogins : Login(raw)
    \/ \E date \in FormDates, category \in FormCategories,
          amount \in FormAmounts, note \in FormNotes, fault \in BOOLEAN :
            Add(date, category, amount, note, fault)
    \/ \E label \in Labels : SelectMonth(label)
    \/ Delete
    \/ SaveChanges

Spec == Init /\ [][Next]_vars

----------------------------------------------------------------------------
(* Sessions that start from a ledger already entered.  The user has logged *)
(* in and added the rows of ledger one by one, the selectbox stands at its *)
(* first month, and nothing has failed.                                    *)

Ledgers(rows, n) == UNION {[1..k -> rows] : k \in 1..n}

TheLogin == <<"a","@","b",".","c","o","m">>

InSession(ledger) ==
    LET v == MonthSection(ledger, << >>, NoMonth, NoChoice)
    IN  /\ logged_in = TRUE
        /\ user_input = TheLogin
        /\ user_id = get_user_id(TheLogin)
        /\ expenses = ledger
        /\ disk = save_expense_data(<< >>, get_user_id(TheLogin), ledger)
        /\ df_expenses = ledger
        /\ months = v.months
        /\ month_selected = v.month_selected
        /\ df_filtered = v.df_filtered
        /\ total_spent = v.total_spent
        /\ edited_df = v.df_filtered
        /\ budget_input = DefaultBudget
        /\ remaining_budget = 0
        /\ pct_used = NotDrawn
        /\ status = "none"
        /\ top_cats = << >>
        /\ top_shown = << >>
        /\ faults = 0
        /\ last = Run("Add", "ok")

(* Delete on the ledgers of up to MaxRows rows *)

DeleteRowSet ==
    {Row(d, c, 10, "") : d \in {Day(2025, 1, 10), Day(2025, 1, 20), Day(2025, 4, 2)},
                         c \in {"Food", "Travel"}}

InitDelete == \E ledger \in Ledgers(DeleteRowSet, MaxRows) : InSession(ledger)

SpecDelete == InitDelete /\ [][Delete]_vars

(* Save Changes on the ledgers of up to MaxRows rows *)

EditRowSet == {Row(d, "Food", 10, "") : d \in FormDates}

InitEdit == \E ledger \in Ledgers(EditRowSet, MaxRows) : InSession(ledger)

SpecEdit == InitEdit /\ [][SaveChanges]_vars

(* The month selectbox on the ledgers of up to MaxRows rows *)

MonthRowSet == {Row(d, "Food", a, "") : d \in AllDates, a \in {10, 20}}

InitMonth == \E ledger \in Ledgers(MonthRowSet, MaxRows) : InSession(ledger)

NextMonth == \E label \in {LabelOf[d] : d \in AllDates} : SelectMonth(label)

SpecMonth == InitMonth /\ [][NextMonth]_vars

(* The key derivation on the identifiers of up to MaxRaw characters *)

IdAlphabet == {"@", "_", "a", "t"}

RawStrings ==
    UNION {[1..k -> IdAlphabet] : k \in 1..MaxRaw}
    \cup { <<"a","@","b",".","c","o","m">>,
           <<"a","_","a","t","_","b","_","d","o","t","_","c","o","m">> }

NextId == \E raw \in RawStrings : Login(raw)

SpecId == Init /\ [][NextId]_vars

(* The budget section on one month's total and the budgets in steps of 50 *)

Totals == {50 * k : k \in 0..MaxTotal}

Budgets == {50 * k : k \in 0..MaxBudget}

InitBudget == \E total \in Totals : InSession(<<Row(Day(2025, 1, 10), "Food", total, "")>>)

NextBudget == \E budget \in Budgets : Budget(budget)

SpecBudget == InitBudget /\ [][NextBudget]_vars

(* The summary on the one-month ledgers of up to MaxTopRows rows *)

TopRowSet ==
    {Row(Day(2025, 1, 10), c, a, "") :
        c \in {"Food", "Travel", "Shopping", "Bills"}, a \in {0, 10, 20}}

InitTop == \E ledger \in Ledgers(TopRowSet, MaxTopRows) : InSession(ledger)

SpecTop == InitTop /\ [][Rerun]_vars

----------------------------------------------------------------------------
(* Properties *)

Position(seq, x) == CHOOSE i \in 1..Len(seq) : seq[i] = x

\* the file of the user logged in, as rows; no file holds no rows
FileRows == IF user_id \in DOMAIN disk THEN disk[user_id] ELSE << >>

\* C1: the month options hold each distinct month/year of the ledger exactly
\* once, and a month later in calendar time comes before an earlier one.
\* The code sorts the labels as strings.
MonthsNewestFirst ==
    months # << >> =>
        /\ \A i, j \in 1..Len(months) : i # j => months[i] # months[j]
        /\ Range(months) = {LabelOf[df_expenses[i].Date] : i \in 1..Len(df_expenses)}
        /\ \A i, j \in 1..Len(df_expenses) :
              MonthAfter(df_expenses[i].Date, df_expenses[j].Date) =>
                  Position(months, LabelOf[df_expenses[i].Date])
                      < Position(months, LabelOf[df_expenses[j].Date])

\* the rows of the ledger that equal no ticked row in all four fields
WithoutSelected(ledger, delete_rows) ==
    LET NotTicked(r) == r \notin Range(delete_rows)
    IN  SelectSeq(ledger, NotTicked)

\* C2: a delete removes from the ledger exactly the records that equal some
\* ticked row in all four fields.  The code tests the four columns one by one.
DeleteRemovesExactlySelected ==
    [][\A sel \in SUBSET (1..(MaxRows + 1)), fault \in BOOLEAN :
          DeleteWith(sel, fault) =>
              expenses' = WithoutSelected(expenses,
                  Rows(MonthSection(expenses, months, month_selected, NoChoice).df_filtered,
                       sel))]_vars

\* C3: every record of the session ledger has a category of the fixed set and
\* an amount >= 0.  The table editor checks neither.
LedgerRecordsValid ==
    \A i \in 1..Len(expenses) :
        expenses[i].Category \in Categories /\ expenses[i].Amount >= 0

Mutations == {"Add", "Delete", "SaveChanges"}

\* C4: when an add, a delete or a Save Changes has ended without an exception,
\* the file of the user logged in holds the session ledger; and while no write
\* has failed, it does at the end of every run.
SavedAfterEveryMutation ==
    /\ (logged_in /\ last.op \in Mutations /\ last.result = "ok") =>
           user_id \in DOMAIN disk /\ disk[user_id] = to_csv(expenses)
    /\ (logged_in /\ faults = 0) => FileRows = to_csv(expenses)

\* a delete succeeded after an earlier write had failed, and rows remain
SavedAfterEveryMutationWitness ==
    /\ last = Run("Delete", "ok")
    /\ faults = 1
    /\ Len(expenses) >= 1
    /\ \E i \in 1..Len(expenses) : expenses[i].Note = NaN

\* C5: remaining = budget - total; usedPct = total / budget * 100 for a
\* budget > 0 and 0 for the budget 0; the status is OVER when remaining < 0,
\* else NEAR_LIMIT when usedPct > 90, else WITHIN.
BudgetEvaluation ==
    last.op = "Budget" =>
        /\ remaining_budget = budget_input - total_spent
        /\ budget_input > 0 =>
               pct_used.num * budget_input = total_spent * 100 * pct_used.den
        /\ budget_input = 0 => pct_used.num = 0
        /\ pct_used.den > 0
        /\ status = IF budget_input - total_spent < 0 THEN "OVER"
                    ELSE IF budget_input > 0 /\ total_spent * 100 > 90 * budget_input
                         THEN "NEAR_LIMIT"
                    ELSE "WITHIN"
        /\ (budget_input > 0 /\ total_spent = budget_input) => status = "NEAR_LIMIT"
        /\ (budget_input > 0 /\ total_spent * 100 = 90 * budget_input) =>
               status = "WITHIN"
        /\ (budget_input = 0 /\ total_spent > 0) =>
               status = "OVER" /\ pct_used.num = 0

\* exactly 90% of the budget is spent
BudgetEvaluationWitness ==
    /\ last.op = "Budget"
    /\ total_spent = 900
    /\ budget_input = 1000
    /\ status = "WITHIN"

\* C6: an add whose save fails leaves the session ledger without the new
\* record.  The code stores the new ledger in the session before it saves.
FailedAddNotCommitted ==
    [][(last'.op = "Add" /\ last'.result = "OSError") => expenses' = expenses]_vars

\* C7: the rows shown for the selected label are exactly the rows of the
\* ledger dated in the calendar month and year of the label, and the total
\* spent is the sum of their amounts.
MonthFilterExact ==
    month_selected # NoMonth =>
        /\ \E i \in 1..Len(df_expenses) : LabelOf[df_expenses[i].Date] = month_selected
        /\ \A i \in 1..Len(df_expenses) :
              LabelOf[df_expenses[i].Date] = month_selected =>
                  LET InMonth(r) == SameMonth(r.Date, df_expenses[i].Date)
                  IN  /\ df_filtered = SelectSeq(df_expenses, InMonth)
                      /\ total_spent = SumAmount(SelectSeq(df_expenses, InMonth))

\* a month is chosen that shares its name with a month of another year and
\* holds rows of two days, in a ledger that has another month too
MonthFilterExactWitness ==
    /\ last.op = "SelectMonth"
    /\ Len(df_filtered) = 2
    /\ df_filtered[1].Date.d # df_filtered[2].Date.d
    /\ Len(df_expenses) = 3
    /\ \E i \in 1..3 : /\ df_expenses[i].Date.m = df_filtered[1].Date.m
                       /\ df_expenses[i].Date.y # df_filtered[1].Date.y

RECURSIVE SumSeries(_)
\* the sum of the sums of a sequence of <<category, sum>> entries
SumSeries(series) ==
    IF series = << >> THEN 0 ELSE Head(series)[2] + SumSeries(Tail(series))

ListedCategories == {top_shown[k][1] : k \in 1..Len(top_shown)}

\* the rows of df_filtered whose category is not among the entries printed
UnlistedRows ==
    LET Unlisted(r) == r.Category \notin ListedCategories
    IN  SelectSeq(df_filtered, Unlisted)

\* at most 3 entries, one per category with that category's summed amount, in
\* descending order of the sums
TopEntriesWellFormed ==
    /\ Len(top_shown) <= 3
    /\ \A k, l \in 1..Len(top_shown) : k # l => top_shown[k][1] # top_shown[l][1]
    /\ \A k \in 1..Len(top_shown) :
          LET OfCategory(r) == r.Category = top_shown[k][1]
          IN  /\ SelectSeq(df_filtered, OfCategory) # << >>
              /\ top_shown[k][2] = SumAmount(SelectSeq(df_filtered, OfCategory))
    /\ \A k \in 1..(Len(top_shown) - 1) : top_shown[k][2] >= top_shown[k + 1][2]

\* C8 as stated: at most 3 entries, one per category, in descending order of
\* the sums; the listed sums add up to at most the total spent, and to the
\* total spent exactly when every record's category is listed.
TopCategoriesAsStated ==
    last.op = "Rerun" =>
        /\ TopEntriesWellFormed
        /\ SumSeries(top_shown) <= total_spent
        /\ SumSeries(top_shown) = total_spent <=> UnlistedRows = << >>

\* C8, amended: at most 3 entries, one per category, in descending order of
\* the sums; the listed sums add up to the total spent less the amounts of the
\* records whose category is not listed, so with no negative amount they add up
\* to at most the total spent, and to the total spent exactly when every record
\* whose category is not listed has the amount 0.
TopCategoriesSummary ==
    last.op = "Rerun" =>
        /\ TopEntriesWellFormed
        /\ SumSeries(top_shown) = total_spent - SumAmount(UnlistedRows)
        /\ (\A i \in 1..Len(df_filtered) : df_filtered[i].Amount >= 0) =>
              /\ SumSeries(top_shown) <= total_spent
              /\ SumSeries(top_shown) = total_spent <=>
                     \A i \in 1..Len(UnlistedRows) : UnlistedRows[i].Amount = 0

\* four categories, none with a negative amount; the one left out holds only a
\* record of amount 0, and the three listed add up to the total spent
TopCategoriesSummaryWitness ==
    /\ last.op = "Rerun"
    /\ Len(top_shown) = 3
    /\ Len(df_filtered) = 4
    /\ \A i \in 1..4 : df_filtered[i].Amount >= 0
    /\ UnlistedRows # << >>
    /\ top_shown[3][2] > 0
    /\ SumSeries(top_shown) = total_spent

\* C9: two different login strings never give the same user id, so a login
\* with another string never opens the same files.  The substitution maps
\* "@" and "_at_" to the same text.
DistinctLoginsDistinctIds ==
    [][(logged_in /\ logged_in' /\ user_input' # user_input) =>
           user_id' # user_id]_vars

\* the positions of the ledger's rows dated in the month of date
InMonthOf(ledger, date) == {i \in 1..Len(ledger) : SameMonth(ledger[i].Date, date)}

====
